---------------------------- MODULE Spec2Model ----------------------------
(***************************************************************************)
(* Model of the AI tutoring backend: the document-processing pipeline of   *)
(* routers/documents.py (upload, background processing run, status and     *)
(* summary reads, deletion) and the quiz endpoints of routers/quizzes.py   *)
(* (generate, submit, score), over the ORM models of models/.              *)
(*                                                                         *)
(* Conventions                                                             *)
(*  - A Python string is a sequence of tokens (a token is a TLA+ string):  *)
(*    the empty string is << >>, " " is whitespace, the section markers,   *)
(*    brackets, commas and code fences (written ''') are tokens too.       *)
(*  - A nullable column holds Null (the empty set) or Some(v) = {v}.       *)
(*  - A database table is a function from primary key to row; its domain   *)
(*    is the set of rows that exist.  Every action is one handler (or one  *)
(*    step of the background run between two suspension points) and ends   *)
(*    with the commit or rollback the code performs.                       *)
(***************************************************************************)
EXTENDS Integers, Sequences, FiniteSets, TLC

\* ------------------------------------------------------------------ bounds
MaxDocs == 1          \* uploads accepted over a behaviour
MaxQuizzes == 1       \* quizzes created by POST /quizzes/generate
MaxSubmissions == 1   \* quiz submissions stored
MaxAnswers == 2       \* answers in one submission
MaxReplyLen == 5      \* tokens in a reply of the summarizer
MaxRuns == 3          \* processing runs entered for one document

\* the authenticated users
Users == {1, 2}

Null == {}
Some(v) == {v}
IsNull(x) == x = {}
TheValue(x) == CHOOSE v \in x : TRUE

Min(a, b) == IF a <= b THEN a ELSE b
Max(a, b) == IF a >= b THEN a ELSE b

\* ------------------------------------------------- models/document.py enum
PENDING == "pending"
PROCESSING == "processing"
COMPLETED == "processed"
FAILED == "failed"
ProcessingStatus == {PENDING, PROCESSING, COMPLETED, FAILED}

\* ------------------------------------------------------- string primitives
IsSpace(t) == t = " "

RECURSIVE lstrip(_)
lstrip(s) == IF s # << >> /\ IsSpace(Head(s)) THEN lstrip(Tail(s)) ELSE s

RECURSIVE rstrip(_)
rstrip(s) ==
    IF s # << >> /\ IsSpace(s[Len(s)]) THEN rstrip(SubSeq(s, 1, Len(s) - 1)) ELSE s

\* str.strip()
strip(s) == rstrip(lstrip(s))

\* t in s for a marker token t
Contains(s, t) == \E i \in 1..Len(s) : s[i] = t

FirstIndex(s, t) == CHOOSE i \in 1..Len(s) : s[i] = t /\ \A j \in 1..(i - 1) : s[j] # t
LastIndex(s, t) == CHOOSE i \in 1..Len(s) : s[i] = t /\ \A j \in (i + 1)..Len(s) : s[j] # t

\* s.replace(t, "")
RemoveAll(s, t) == SelectSeq(s, LAMBDA x : x # t)

\* s.split(m)[0] and s.split(m)[1], for s that contains m
SplitPart0(s, m) == SubSeq(s, 1, FirstIndex(s, m) - 1)
SplitPart1(s, m) ==
    LET rest == SubSeq(s, FirstIndex(s, m) + 1, Len(s))
    IN  IF Contains(rest, m) THEN SubSeq(rest, 1, FirstIndex(rest, m) - 1) ELSE rest

\* s[:c] with Python's meaning of a negative c
PySliceTo(s, c) ==
    IF c >= 0 THEN SubSeq(s, 1, Min(c, Len(s))) ELSE SubSeq(s, 1, Max(0, Len(s) + c))

\* ------------------------------------------------------------ JSON (json.loads)
\* String literals the model may emit inside a topics array.
JsonStrings == {"\"a\"", "\"b\""}
JsonStringValue(t) == IF t = "\"a\"" THEN "a" ELSE "b"

\* elements of an array body with the whitespace removed: v ("," v)*
RECURSIVE ValidElems(_)
ValidElems(ts) ==
    \/ Len(ts) = 1 /\ ts[1] \in JsonStrings
    \/ /\ Len(ts) >= 3
       /\ ts[1] \in JsonStrings
       /\ ts[2] = ","
       /\ ValidElems(SubSeq(ts, 3, Len(ts)))

\* json.loads("[" + body + "]") for an array of strings: does it parse, and to what
JsonArrayOk(body) ==
    LET ts == RemoveAll(body, " ") IN ts = << >> \/ ValidElems(ts)
JsonArrayValue(body) ==
    LET lits == SelectSeq(body, LAMBDA x : x \in JsonStrings)
    IN  [i \in 1..Len(lits) |-> JsonStringValue(lits[i])]

\* --------------------------------------------------- the language-model replies
\* A reply of the completion API: the call raised ("error"), the message
\* content is None ("none"), or the content is text.
ApiError == [kind |-> "error", content |-> << >>]
ApiNone == [kind |-> "none", content |-> << >>]
ApiText(s) == [kind |-> "text", content |-> s]

SUMMARY_FAILED == <<"Summary generation failed">>

\* Replies to the summarizer prompt: the call fails, a reply in the format
\* asked for, a reply without the markers, a reply with an empty summary.
SummarizerReplies ==
    { ApiError,
      ApiText(<<"SUMMARY:", " ", "w", " ", "KEY_TOPICS:", " ", "[", "\"a\"", ",", " ", "\"b\"", "]">>),
      ApiText(<<" ", "w", " ">>),
      ApiText(<<"SUMMARY:", "KEY_TOPICS:", "[", "]">>) }

\* re.search(r'\[(.*?)\]', s, re.DOTALL): is there a match, and its group(1)
BracketMatch(s) ==
    /\ Contains(s, "[")
    /\ \E j \in (FirstIndex(s, "[") + 1)..Len(s) : s[j] = "]"
BracketGroup(s) ==
    LET i == FirstIndex(s, "[")
        j == CHOOSE k \in (i + 1)..Len(s) :
                 s[k] = "]" /\ \A m \in (i + 1)..(k - 1) : s[m] # "]"
    IN  SubSeq(s, i + 1, j - 1)

\* DocumentService.generate_summary_and_topics: the parse of a reply.
generate_summary_and_topics(reply) ==
    IF reply.kind # "text"
    THEN \* the API call raised, or "SUMMARY:" in None raised and the parse
         \* handler's own content.strip() raised: the outer handler answers
         [summary |-> SUMMARY_FAILED, key_topics |-> << >>]
    ELSE LET content == reply.content IN
         IF Contains(content, "SUMMARY:") /\ Contains(content, "KEY_TOPICS:")
         THEN LET summary == strip(RemoveAll(SplitPart0(content, "KEY_TOPICS:"), "SUMMARY:"))
                  topics_text == strip(SplitPart1(content, "KEY_TOPICS:"))
              IN  IF BracketMatch(topics_text)
                  THEN IF JsonArrayOk(BracketGroup(topics_text))
                       THEN [summary |-> summary,
                             key_topics |-> JsonArrayValue(BracketGroup(topics_text))]
                       ELSE [summary |-> strip(content), key_topics |-> << >>]
                  ELSE [summary |-> summary, key_topics |-> << >>]
         ELSE [summary |-> strip(content), key_topics |-> << >>]

\* The summarizer call failed: it raised or returned no text, the cases the
\* outer handler answers.  (Text that is not in the format asked for is not
\* counted here: the parser keeps it as the summary.)
SummarizerFailed(reply) == reply.kind # "text"

\* The summarizer returned well-formed output: both sections, a non-empty
\* summary and a JSON array of topics.
WellFormedSummary(reply) ==
    /\ reply.kind = "text"
    /\ Contains(reply.content, "SUMMARY:") /\ Contains(reply.content, "KEY_TOPICS:")
    /\ LET topics_text == strip(SplitPart1(reply.content, "KEY_TOPICS:")) IN
       BracketMatch(topics_text) /\ JsonArrayOk(BracketGroup(topics_text))
    /\ generate_summary_and_topics(reply).summary # << >>

\* ------------------------------------------------------- generated questions
\* A token per JSON object the generator may emit: Q1 and Q2 carry every
\* field, Qna lacks "answer", Qno lacks "options".
RecordTokens == {"Q1", "Q2", "Qna", "Qno"}
RecordKeys(q) ==
    CASE q = "Qna" -> {"question", "options", "explanation"}
      [] q = "Qno" -> {"question", "answer", "explanation"}
      [] OTHER -> {"question", "options", "answer", "explanation"}
\* q.get(key, "") of a record
RecordGet(q, key) ==
    IF key \notin RecordKeys(q) THEN ""
    ELSE CASE key = "question" -> IF q = "Q2" THEN "q2" ELSE "q1"
           [] key = "answer" -> IF q = "Q2" THEN "B" ELSE "A"
           [] key = "options" -> "ABCD"
           [] OTHER -> "because"

\* key in item for an element of the parsed value: a dict (record) has the
\* key; iterating a JSON object yields its key strings, and in on a string
\* is the substring test ("question" in "questions").
ItemHasKey(item, key) ==
    IF item \in RecordTokens THEN key \in RecordKeys(item)
    ELSE item = "questions" /\ key = "question"

RECURSIVE ValidRecords(_)
ValidRecords(ts) ==
    \/ Len(ts) = 1 /\ ts[1] \in RecordTokens
    \/ /\ Len(ts) >= 3
       /\ ts[1] \in RecordTokens
       /\ ts[2] = ","
       /\ ValidRecords(SubSeq(ts, 3, Len(ts)))

\* json.loads(raw): does it parse, and to what.  The value is a list of
\* objects, a JSON object ("{}" or "{q}" = {"questions": ...}, iterated by
\* key) or a number.
JsonOk(raw) ==
    LET ts == RemoveAll(raw, " ") IN
    \/ ts \in {<<"{}">>, <<"{q}">>, <<"5">>}
    \/ /\ Len(ts) >= 2
       /\ ts[1] = "["
       /\ ts[Len(ts)] = "]"
       /\ LET inner == SubSeq(ts, 2, Len(ts) - 1) IN inner = << >> \/ ValidRecords(inner)
JsonValue(raw) ==
    LET ts == RemoveAll(raw, " ") IN
    CASE ts = <<"5">> -> [kind |-> "num", items |-> << >>]
      [] ts = <<"{}">> -> [kind |-> "dict", items |-> << >>]
      [] ts = <<"{q}">> -> [kind |-> "dict", items |-> <<"questions">>]
      [] OTHER -> [kind |-> "list", items |-> SelectSeq(ts, LAMBDA x : x \in RecordTokens)]

EmptyList == [kind |-> "list", items |-> << >>]

\* Replies to the quiz-generation prompt of the processing run: the call
\* fails, an array of complete questions in a code fence, text that is no
\* JSON, a JSON object instead of an array, an array with an incomplete record.
GeneratorReplies ==
    { ApiError,
      ApiText(<<"'''json", " ", "[", "Q1", ",", " ", "Q2", "]", " ", "'''">>),
      ApiText(<<"w">>),
      ApiText(<<"{q}">>),
      ApiText(<<"w", " ", "[", "Q1", ",", "Qna", "]">>) }

\* re.sub(r'^'''json\s*', '', s) and re.sub(r'\s*'''$', '', s)
StripLeadingFence(s) ==
    IF s # << >> /\ Head(s) = "'''json" THEN lstrip(Tail(s)) ELSE s
StripTrailingFence(s) ==
    IF s # << >> /\ s[Len(s)] = "'''" THEN rstrip(SubSeq(s, 1, Len(s) - 1)) ELSE s

\* re.search(r'\[.*\]', s, re.DOTALL): greedy, first "[" to last "]"
GreedyMatch(s) ==
    Contains(s, "[") /\ Contains(s, "]") /\ FirstIndex(s, "[") < LastIndex(s, "]")
GreedyGroup(s) == SubSeq(s, FirstIndex(s, "["), LastIndex(s, "]"))

\* DocumentService.generate_quiz_questions: the parse of a reply.
generate_quiz_questions(reply) ==
    IF reply.kind # "text"
    THEN EmptyList    \* the call raised, or None.strip() raised: return []
    ELSE LET raw_output == StripTrailingFence(StripLeadingFence(strip(reply.content))) IN
         IF JsonOk(raw_output) THEN JsonValue(raw_output)
         ELSE IF GreedyMatch(raw_output) /\ JsonOk(GreedyGroup(raw_output))
              THEN JsonValue(GreedyGroup(raw_output))
              ELSE EmptyList

\* The generator failed: the call raised or returned no text (transport
\* error), or no JSON can be parsed out of the text.
GeneratorFailed(reply) ==
    \/ reply.kind # "text"
    \/ LET raw_output == StripTrailingFence(StripLeadingFence(strip(reply.content))) IN
       ~JsonOk(raw_output) /\ ~(GreedyMatch(raw_output) /\ JsonOk(GreedyGroup(raw_output)))

\* The generator returned well-formed output: a JSON array, bare or fenced, of
\* one or more question objects that carry every field of the format.
WellFormedQuestions(reply) ==
    /\ reply.kind = "text"
    /\ JsonOk(StripTrailingFence(StripLeadingFence(strip(reply.content))))
    /\ LET got == generate_quiz_questions(reply) IN
       /\ got.kind = "list"
       /\ got.items # << >>
       /\ \A i \in 1..Len(got.items) :
              RecordKeys(got.items[i]) = {"question", "options", "answer", "explanation"}

\* QuizService._generate_questions_ai: the parse of a reply, the validation of
\* the records and the cut to count.
RequiredKeys == {"question", "options", "answer"}
generate_questions_ai(reply, count) ==
    IF reply.kind # "text"
    THEN << >>
    ELSE LET raw_output ==
                 strip(RemoveAll(RemoveAll(strip(reply.content), "'''json"), "'''"))
         IN  IF ~JsonOk(raw_output) THEN << >>
             ELSE LET questions == JsonValue(raw_output) IN
                  IF questions.kind = "num" THEN << >>   \* not iterable: outer handler
                  ELSE PySliceTo(
                           SelectSeq(questions.items,
                                     LAMBDA q : \A key \in RequiredKeys : ItemHasKey(q, key)),
                           count)

\* ------------------------------------------------------------- models/quiz.py
\* The attributes of the mapped class Quiz (columns and relationships): the
\* keyword arguments its declarative constructor accepts.
QuizAttributes ==
    {"id", "document_id", "title", "description", "difficulty",
     "estimated_duration", "created_at", "document", "questions", "submissions"}
\* Columns of quizzes declared nullable=False that have no default.
QuizRequired == {"document_id", "title"}

\* The keyword arguments process_document passes to Quiz(...).
ProcessDocumentQuizKwargs ==
    {"document_id", "question", "options", "correct_answer", "explanation"}

\* Quiz(**kwargs) followed by the INSERT at commit: the declarative
\* constructor raises TypeError on a keyword that is no attribute of the
\* class, and the INSERT raises IntegrityError on a missing NOT NULL column.
QuizRowRaises(kwargs) ==
    ~(kwargs \subseteq QuizAttributes) \/ ~(QuizRequired \subseteq kwargs)

DifficultyLevel == {"easy", "medium", "hard"}

\* ------------------------------------------------------------ the PDF files
\* What an uploaded file is: a PDF with a text layer, a PDF of scanned pages
\* (no text), or bytes PdfReader cannot parse.
PdfKinds == {"text", "scanned", "corrupt"}
PdfPages(kind) == IF kind = "text" THEN << <<"w">> >> ELSE << << >> >>

\* open(file_path) or PdfReader(file) raises
PdfReaderRaises(fs, path) == path \notin DOMAIN fs \/ fs[path] = "corrupt"

\* text += page.extract_text() + "\n" over the pages
RECURSIVE JoinPages(_)
JoinPages(pages) ==
    IF pages = << >> THEN << >> ELSE Head(pages) \o <<" ">> \o JoinPages(Tail(pages))

\* extract_pdf_text without its try/except
extract_pdf_text_unguarded(fs, path) ==
    IF PdfReaderRaises(fs, path)
    THEN [raised |-> TRUE, text |-> << >>]
    ELSE [raised |-> FALSE, text |-> strip(JoinPages(PdfPages(fs[path])))]

\* DocumentService.extract_pdf_text: the text, and whether the call raised
extract_pdf_text(fs, path) ==
    IF PdfReaderRaises(fs, path)
    THEN [raised |-> FALSE, text |-> << >>]     \* except Exception: return ""
    ELSE [raised |-> FALSE, text |-> strip(JoinPages(PdfPages(fs[path])))]

\* DocumentService.get_pdf_page_count
get_pdf_page_count(fs, path) ==
    IF PdfReaderRaises(fs, path) THEN 0 ELSE Len(PdfPages(fs[path]))

\* ------------------------------------------------------------------- state
VARIABLES
    documents,      \* table documents: id -> row
    quizzes,        \* table quizzes: id -> row
    questions,      \* table questions: id -> row
    submissions,    \* table quiz_submissions: id -> row
    nextId,         \* the sequences of the four primary keys
    fkCascade,      \* the schema deployed: foreign keys with ON DELETE CASCADE
                    \* (migration_update_schema.py) or without (create_all)
    files,          \* the upload directory: path -> kind of file
    now,            \* int(time.time()) as last read
    tasks,          \* background tasks added and not yet started (document ids)
    run,            \* the processing run of a document: id -> its position and locals
    started,        \* how many runs were started for a document id
    uploadResponse  \* what POST /upload answered for a document id

vars == <<documents, quizzes, questions, submissions, nextId, fkCascade, files, now,
          tasks, run, started, uploadResponse>>

\* f with key k set to v (insert or overwrite), and f without the keys ks
Put(f, k, v) == [x \in DOMAIN f \cup {k} |-> IF x = k THEN v ELSE f[x]]
Drop(f, ks) == [x \in DOMAIN f \ ks |-> f[x]]

Init ==
    /\ documents = << >>
    /\ quizzes = << >>
    /\ questions = << >>
    /\ submissions = << >>
    /\ nextId = [document |-> 1, quiz |-> 1, question |-> 1, submission |-> 1]
    /\ fkCascade \in BOOLEAN
    /\ files = << >>
    /\ now = 0
    /\ tasks = << >>
    /\ run = << >>
    /\ started = << >>
    /\ uploadResponse = << >>

\* Document.to_dict
to_dict(id, doc) ==
    [id |-> id, fileSize |-> doc.file_size, mimeType |-> doc.mime_type,
     status |-> doc.processing_status, processedAt |-> doc.processed_at,
     summary |-> doc.summary, content |-> doc.content, pageCount |-> doc.page_count,
     userId |-> doc.user_id]

\* --------------------------------------------- POST /documents/upload
\* the task added twice
add_task_twice(queue, id) == Append(Append(queue, id), id)
\* the task not added
add_task_dropped(queue, id) == queue
\* background_tasks.add_task(process_document_background, document.id)
add_task(queue, id) == Append(queue, id)

\* The row upload_document inserts.
NewDocument(user, file_path, file_size, mime_type) ==
    [user_id |-> user, file_path |-> file_path, file_size |-> file_size,
     mime_type |-> mime_type, page_count |-> Null, content |-> Null,
     summary |-> Null, key_topics |-> Null, processing_status |-> PENDING,
     processed_at |-> Null]

\* settings.MAX_FILE_SIZE, in bytes
MAX_FILE_SIZE == 10 * 1024 * 1024

\* the status code of the answer: the content type is the only thing looked at
upload_code(content_type, file_size) ==
    IF content_type # "application/pdf" THEN 400 ELSE 200

\* upload_document; file_size is the length of the body, which
\* os.path.getsize reads back from the saved file; time is the value
\* time.time() returns, the same second as the last call or a later one.
upload_document(user, content_type, file_size, kind, time) ==
    /\ nextId.document <= MaxDocs
    /\ IF upload_code(content_type, file_size) # 200
       THEN UNCHANGED vars
       ELSE LET id == nextId.document
                \* f"{current_user.id}_{int(time.time())}_{file.filename}"
                file_path == <<user, time>>
                document == NewDocument(user, file_path, file_size, content_type)
            IN  /\ now' = time
                /\ files' = Put(files, file_path, kind)
                /\ documents' = Put(documents, id, document)
                /\ nextId' = [nextId EXCEPT !.document = @ + 1]
                /\ tasks' = add_task(tasks, id)
                /\ started' = Put(started, id, 0)
                /\ uploadResponse' = Put(uploadResponse, id, to_dict(id, document))
                /\ UNCHANGED <<quizzes, questions, submissions, fkCascade, run>>

\* ------------------------------------------------- the processing run
NotCalled == [kind |-> "notcalled", content |-> << >>]

\* The locals of process_document as the run begins.
NewRun ==
    [pc |-> "start", text_content |-> << >>, extractor_raised |-> FALSE,
     summary |-> << >>, key_topics |-> << >>, quiz_questions |-> EmptyList,
     summarizer_reply |-> NotCalled, generator_reply |-> NotCalled]

\* process_document has returned: its locals are gone.
DoneRun == [NewRun EXCEPT !.pc = "done"]

\* process_document_background: the task starts, asyncio.run enters process_document
process_document_background(i) ==
    /\ i \in 1..Len(tasks)
    /\ LET id == tasks[i] IN
       /\ run' = Put(run, id, NewRun)
       /\ started' = [started EXCEPT ![id] = @ + 1]
    /\ tasks' = SubSeq(tasks, 1, i - 1) \o SubSeq(tasks, i + 1, Len(tasks))
    /\ UNCHANGED <<documents, quizzes, questions, submissions, nextId, fkCascade, files,
                   now, uploadResponse>>

At(id, pc) == id \in DOMAIN run /\ run[id].pc = pc

\* process_document, lines 34-43: find the document, set PROCESSING, commit
process_document_start(id) ==
    /\ At(id, "start")
    /\ IF id \notin DOMAIN documents
       THEN /\ run' = [run EXCEPT ![id] = DoneRun]       \* not found: return
            /\ UNCHANGED documents
       ELSE /\ documents' = [documents EXCEPT ![id].processing_status = PROCESSING]
            /\ run' = [run EXCEPT ![id].pc = "extract"]
    /\ UNCHANGED <<quizzes, questions, submissions, nextId, fkCascade, files, now, tasks,
                   started, uploadResponse>>

\* process_document, lines 45-52: extract the text, store it with the page count, commit.
\* The row is gone (deleted meanwhile): loading document.file_path raises.
process_document_extract(id) ==
    /\ At(id, "extract")
    /\ IF id \notin DOMAIN documents
       THEN /\ run' = [run EXCEPT ![id].pc = "handler"]
            /\ UNCHANGED documents
       ELSE LET path == documents[id].file_path
                got == extract_pdf_text(files, path)
            IN  IF got.raised \/ got.text = << >>
                THEN /\ run' = [run EXCEPT ![id].pc = "handler",
                                           ![id].extractor_raised = got.raised]
                     /\ UNCHANGED documents
                ELSE /\ documents' =
                            [documents EXCEPT
                                ![id].content = Some(got.text),
                                ![id].page_count = Some(get_pdf_page_count(files, path))]
                     /\ run' = [run EXCEPT ![id].pc = "summarize",
                                           ![id].text_content = got.text]
    /\ UNCHANGED <<quizzes, questions, submissions, nextId, fkCascade, files, now, tasks,
                   started, uploadResponse>>

\* a run that stores the summary and the topics as soon as the summarizer
\* has returned
process_document_summarize_stores(id, reply) ==
    /\ At(id, "summarize")
    /\ LET got == generate_summary_and_topics(reply) IN
       /\ run' = [run EXCEPT ![id].pc = "generate",
                             ![id].summarizer_reply = reply,
                             ![id].summary = got.summary,
                             ![id].key_topics = got.key_topics]
       /\ documents' = [d \in DOMAIN documents |->
                           IF d = id
                           THEN [documents[d] EXCEPT !.summary = Some(got.summary),
                                                     !.key_topics = Some(got.key_topics)]
                           ELSE documents[d]]
    /\ UNCHANGED <<quizzes, questions, submissions, nextId, fkCascade, files,
                   now, tasks, started, uploadResponse>>

\* process_document, line 55: await generate_summary_and_topics(text_content)
process_document_summarize(id, reply) ==
    /\ At(id, "summarize")
    /\ LET got == generate_summary_and_topics(reply) IN
       run' = [run EXCEPT ![id].pc = "generate",
                          ![id].summarizer_reply = reply,
                          ![id].summary = got.summary,
                          ![id].key_topics = got.key_topics]
    /\ UNCHANGED <<documents, quizzes, questions, submissions, nextId, fkCascade, files,
                   now, tasks, started, uploadResponse>>

\* process_document, line 58: await generate_quiz_questions(text_content)
process_document_generate(id, reply) ==
    /\ At(id, "generate")
    /\ run' = [run EXCEPT ![id].pc = "save",
                          ![id].generator_reply = reply,
                          ![id].quiz_questions = generate_quiz_questions(reply)]
    /\ UNCHANGED <<documents, quizzes, questions, submissions, nextId, fkCascade, files,
                   now, tasks, started, uploadResponse>>

\* One pass of the loop of lines 67-75 raises: q["question"] on a string or on
\* a record without the key, q["answer"] likewise, or the Quiz row itself.
QuizLoopRaises(q) ==
    \/ q \notin RecordTokens
    \/ "question" \notin RecordKeys(q)
    \/ "answer" \notin RecordKeys(q)
    \/ QuizRowRaises(ProcessDocumentQuizKwargs)

\* The rows the loop adds, one Quiz per generated question.
LoopQuizRows(id, items, first) ==
    [k \in first..(first + Len(items) - 1) |->
        [document_id |-> id, title |-> Null, difficulty |-> "medium",
         estimated_duration |-> Null]]

\* process_document, lines 60-79: store summary, topics, status, timestamp and
\* the quiz rows, commit.  len() of a number raises, a pass of the loop may
\* raise, and the UPDATE of a row deleted meanwhile raises.
process_document_save(id) ==
    /\ At(id, "save")
    /\ LET r == run[id]
           items == r.quiz_questions.items
           raises == \/ id \notin DOMAIN documents
                     \/ r.quiz_questions.kind = "num"
                     \/ \E i \in 1..Len(items) : QuizLoopRaises(items[i])
       IN  IF raises
           THEN /\ run' = [run EXCEPT ![id].pc = "handler"]
                /\ UNCHANGED <<documents, quizzes, nextId>>
           ELSE /\ documents' =
                       [documents EXCEPT
                           ![id].summary = Some(r.summary),
                           ![id].key_topics = Some(r.key_topics),
                           ![id].processing_status = COMPLETED,
                           ![id].processed_at = Some(now)]
                /\ quizzes' = LoopQuizRows(id, items, nextId.quiz) @@ quizzes
                /\ nextId' = [nextId EXCEPT !.quiz = @ + Len(items)]
                /\ run' = [run EXCEPT ![id] = DoneRun]
    /\ UNCHANGED <<questions, submissions, fkCascade, files, now, tasks, started,
                   uploadResponse>>

\* a failure handler that writes the failed row back when the document has
\* been deleted meanwhile
process_document_handler_restores(id) ==
    /\ At(id, "handler")
    /\ documents' =
           IF id \in DOMAIN documents
           THEN [documents EXCEPT ![id].processing_status = FAILED]
           ELSE Put(documents, id,
                    [NewDocument(uploadResponse[id].userId, <<uploadResponse[id].userId, now>>,
                                 uploadResponse[id].fileSize, uploadResponse[id].mimeType)
                        EXCEPT !.processing_status = FAILED])
    /\ run' = [run EXCEPT ![id] = DoneRun]
    /\ UNCHANGED <<quizzes, questions, submissions, nextId, fkCascade, files, now, tasks,
                   started, uploadResponse>>

\* a failure handler that stamps the document as it marks it failed
process_document_handler_stamps(id) ==
    /\ At(id, "handler")
    /\ IF id \in DOMAIN documents
       THEN /\ documents' = [documents EXCEPT ![id].processing_status = FAILED,
                                              ![id].processed_at = Some(now)]
       ELSE UNCHANGED documents
    /\ run' = [run EXCEPT ![id] = DoneRun]
    /\ UNCHANGED <<quizzes, questions, submissions, nextId, fkCascade, files, now, tasks,
                   started, uploadResponse>>

\* process_document, lines 81-88: rollback, fetch the document again, set FAILED, commit
process_document_handler(id) ==
    /\ At(id, "handler")
    /\ IF id \in DOMAIN documents
       THEN /\ documents' = [documents EXCEPT ![id].processing_status = FAILED]
       ELSE UNCHANGED documents
    /\ run' = [run EXCEPT ![id] = DoneRun]
    /\ UNCHANGED <<quizzes, questions, submissions, nextId, fkCascade, files, now, tasks,
                   started, uploadResponse>>

\* ------------------------------------------------- the document endpoints
\* a query that does not filter by the caller
AnyDocument(user, id) == id \in DOMAIN documents

\* db.query(Document).filter(Document.id == id, Document.user_id == user).first()
OwnedDocument(user, id) == id \in DOMAIN documents /\ documents[id].user_id = user

\* GET /documents/{id}/status: the answer (the endpoint changes no state)
get_document_status(user, id) ==
    IF ~OwnedDocument(user, id)
    THEN [code |-> 404]
    ELSE [code |-> 200,
          status |-> documents[id].processing_status,
          processing_complete |-> (documents[id].processing_status = COMPLETED),
          processed_at |-> documents[id].processed_at]

\* GET /documents/: the documents of the caller
get_documents(user) ==
    {to_dict(id, documents[id]) : id \in {d \in DOMAIN documents : documents[d].user_id = user}}

\* GET /documents/{id}
get_document(user, id) ==
    IF ~OwnedDocument(user, id)
    THEN [code |-> 404]
    ELSE [code |-> 200, document |-> to_dict(id, documents[id])]

\* not document.summary: None or the empty string
Falsy(opt) == IsNull(opt) \/ TheValue(opt) = << >>

\* GET /documents/{id}/summary: the answer (the endpoint changes no state)
get_document_summary(user, id) ==
    IF ~OwnedDocument(user, id)
    THEN [code |-> 404]
    ELSE LET doc == documents[id] IN
         IF Falsy(doc.summary)
         THEN [code |-> 200,
               summary |->
                   CASE doc.processing_status = PROCESSING ->
                            <<"Summary is being generated. Please wait...">>
                     [] doc.processing_status = FAILED ->
                            <<"Summary generation failed. Please try re-uploading the document.">>
                     [] OTHER ->
                            <<"Summary not yet available. Document may still be processing.">>]
         ELSE [code |-> 200,
               summary |-> TheValue(doc.summary),
               key_topics |-> IF IsNull(doc.key_topics) THEN << >>
                              ELSE TheValue(doc.key_topics)]

QuizzesOf(id) == {q \in DOMAIN quizzes : quizzes[q].document_id = id}
QuestionsOf(qs) == {x \in DOMAIN questions : questions[x].quiz_id \in qs}
SubmissionsOf(qs) == {x \in DOMAIN submissions : submissions[x].quiz_id \in qs}

\* DELETE /documents/{id}: the status code of the answer.  The bulk DELETE of
\* the quizzes runs first: with plain foreign keys it raises when a question
\* or a submission still refers to one of them.
delete_code(user, id) ==
    CASE ~OwnedDocument(user, id) -> 404
      [] /\ ~fkCascade
         /\ QuestionsOf(QuizzesOf(id)) \cup SubmissionsOf(QuizzesOf(id)) # {} -> 500
      [] OTHER -> 200

\* a deletion on a database that neither enforces nor cascades the foreign
\* keys of questions and submissions
delete_document_orphans(user, id) ==
    /\ id \in DOMAIN documents /\ documents[id].user_id = user
    /\ quizzes' = Drop(quizzes, {q \in DOMAIN quizzes : quizzes[q].document_id = id})
    /\ files' = Drop(files, {documents[id].file_path})
    /\ documents' = Drop(documents, {id})
    /\ UNCHANGED <<questions, submissions, nextId, fkCascade, now, tasks, run, started,
                   uploadResponse>>

\* delete_document: on 500 the transaction is rolled back before the file is
\* touched; on 200 the quizzes go (and, by ON DELETE CASCADE, their questions
\* and submissions), then the file, then the row, then the commit.
delete_document(user, id) ==
    /\ IF delete_code(user, id) # 200
       THEN UNCHANGED vars
       ELSE LET qs == QuizzesOf(id) IN
            /\ quizzes' = Drop(quizzes, qs)
            /\ questions' = Drop(questions, QuestionsOf(qs))
            /\ submissions' = Drop(submissions, SubmissionsOf(qs))
            /\ files' = Drop(files, {documents[id].file_path})
            /\ documents' = Drop(documents, {id})
            /\ UNCHANGED <<nextId, fkCascade, now, tasks, run, started,
                           uploadResponse>>

\* ----------------------------------------------------- POST /quizzes/generate
MAX_QUESTIONS == 50

\* question_count = min(options.get("questionCount", 10), 50)
question_count(questionCount) == Min(questionCount, MAX_QUESTIONS)

\* the status code of an endpoint that does not look at processing_status
generate_code_any_status(user, id, difficulty, questionCount, reply) ==
    CASE ~OwnedDocument(user, id) -> 404
      [] Falsy(documents[id].content) -> 400
      [] difficulty \notin DifficultyLevel -> 500
      [] generate_questions_ai(reply, question_count(questionCount)) = << >> -> 500
      [] OTHER -> 200

\* the status code of an endpoint that stores the Quiz whatever the list of
\* questions it got
generate_code_allows_empty(user, id, difficulty, questionCount, reply) ==
    CASE ~OwnedDocument(user, id) -> 404
      [] documents[id].processing_status # COMPLETED -> 400
      [] Falsy(documents[id].content) -> 400
      [] difficulty \notin DifficultyLevel -> 500
      [] OTHER -> 200

\* the status code of the answer
generate_code(user, id, difficulty, questionCount, reply) ==
    CASE ~OwnedDocument(user, id) -> 404
      [] documents[id].processing_status # COMPLETED -> 400
      [] Falsy(documents[id].content) -> 400
      [] difficulty \notin DifficultyLevel -> 500        \* DifficultyLevel(difficulty)
      [] generate_questions_ai(reply, question_count(questionCount)) = << >> -> 500
      [] OTHER -> 200

\* The Question rows generate_quiz_from_document builds from the valid records.
NewQuestions(quiz_id, questions_data, first) ==
    [k \in first..(first + Len(questions_data) - 1) |->
        LET i == k - first + 1 IN
        [quiz_id |-> quiz_id,
         question_text |-> RecordGet(questions_data[i], "question"),
         options |-> RecordGet(questions_data[i], "options"),
         correct_answer |-> RecordGet(questions_data[i], "answer"),
         explanation |-> RecordGet(questions_data[i], "explanation"),
         order_index |-> i - 1]]

generate_quiz(user, id, difficulty, questionCount, reply) ==
    /\ nextId.quiz <= MaxQuizzes
    /\ IF generate_code(user, id, difficulty, questionCount, reply) # 200
       THEN UNCHANGED vars
       ELSE LET quiz_id == nextId.quiz
                questions_data == generate_questions_ai(reply, question_count(questionCount))
            IN  /\ quizzes' =
                       Put(quizzes, quiz_id,
                           [document_id |-> id, title |-> Some("Quiz"),
                            difficulty |-> difficulty,
                            estimated_duration |->
                                Some(Max(5, question_count(questionCount) * 2))])
                /\ questions' =
                       NewQuestions(quiz_id, questions_data, nextId.question) @@ questions
                /\ nextId' = [nextId EXCEPT !.quiz = @ + 1,
                                            !.question = @ + Len(questions_data)]
                /\ UNCHANGED <<documents, submissions, fkCascade, files, now, tasks, run,
                               started, uploadResponse>>

\* ------------------------------------------------------------- the scorer
\* int((correct_count / total_questions) * 100).  The quotient is a double:
\* for fewer than 10 questions the truncated product is the integer quotient
\* below (the first pair that differs is 23 of 10; with correct_count <=
\* total_questions it is 29 of 50, which gives 57).
Percent(correct_count, total_questions) == (correct_count * 100) \div total_questions

\* str.lower().strip() of an answer string
lower_strip(s) ==
    CASE s \in {"A", "a", "A ", " a"} -> "a"
      [] s \in {"B", "b", "B ", " b"} -> "b"
      [] OTHER -> s

\* the answers a scorer counts that compares after lower().strip()
CorrectAnswersNormalized(quizQuestions, answers) ==
    {i \in 1..Len(answers) :
        /\ answers[i].questionId \in quizQuestions
        /\ lower_strip(answers[i].answer)
               = lower_strip(questions[answers[i].questionId].correct_answer)}

\* the answers that name a question of the quiz and carry its stored answer;
\* a questionId is the string str(q.id) of the id it is written as here
CorrectAnswers(quizQuestions, answers) ==
    {i \in 1..Len(answers) :
        /\ answers[i].questionId \in quizQuestions
        /\ answers[i].answer = questions[answers[i].questionId].correct_answer}

\* a scorer that believes the isCorrect flag of each answer
calculate_score_flags(quizQuestions, answers) ==
    IF quizQuestions = {} \/ answers = << >>
    THEN 0
    ELSE Percent(Cardinality({i \in 1..Len(answers) : answers[i].isCorrect}),
                 Cardinality(quizQuestions))

\* QuizService.calculate_score, for the ids of the quiz's questions
calculate_score(quizQuestions, answers) ==
    IF quizQuestions = {} \/ answers = << >>
    THEN 0
    ELSE LET correct_count == Cardinality(CorrectAnswers(quizQuestions, answers))
             total_questions == Cardinality(quizQuestions)
         IN  IF total_questions > 0 THEN Percent(correct_count, total_questions) ELSE 0

\* ------------------------------------------------ POST /quizzes/{id}/submit
\* db.query(Quiz).join(Document).filter(Quiz.id == id, Document.user_id == user).first()
OwnedQuiz(user, quiz_id) ==
    /\ quiz_id \in DOMAIN quizzes
    /\ OwnedDocument(user, quizzes[quiz_id].document_id)

submit_code(user, quiz_id) == IF OwnedQuiz(user, quiz_id) THEN 200 ELSE 404

\* an insert that stores the submission under two primary keys
add_submission_twice(table, id, row) == Put(Put(table, id, row), id + 1, row)

\* db.add(submission); db.commit(): one INSERT under the next primary key
add_submission(table, id, row) == Put(table, id, row)

submit_quiz(user, quiz_id, answers) ==
    /\ nextId.submission <= MaxSubmissions
    /\ IF submit_code(user, quiz_id) # 200
       THEN UNCHANGED vars
       ELSE /\ submissions' =
                   add_submission(submissions, nextId.submission,
                       [quiz_id |-> quiz_id, user_id |-> user, answers |-> answers,
                        score |-> calculate_score(QuestionsOf({quiz_id}), answers)])
            /\ nextId' = [nextId EXCEPT !.submission = @ + 1]
            /\ UNCHANGED <<documents, quizzes, questions, fkCascade, files, now, tasks,
                           run, started, uploadResponse>>

\* ------------------------------------------- the other quiz endpoints
\* Quiz.to_dict and QuizSubmission.to_dict
quiz_to_dict(quiz_id) ==
    [id |-> quiz_id, documentId |-> quizzes[quiz_id].document_id,
     title |-> quizzes[quiz_id].title, difficulty |-> quizzes[quiz_id].difficulty,
     totalQuestions |-> Cardinality(QuestionsOf({quiz_id})),
     questions |-> QuestionsOf({quiz_id})]
submission_to_dict(s) ==
    [id |-> s, quizId |-> submissions[s].quiz_id, userId |-> submissions[s].user_id,
     answers |-> submissions[s].answers, score |-> submissions[s].score]

\* GET /quizzes/: db.query(Quiz).join(Document).filter(Document.user_id == user)
get_quizzes(user) ==
    {quiz_to_dict(q) : q \in {x \in DOMAIN quizzes : OwnedQuiz(user, x)}}

\* GET /quizzes/{id}
get_quiz(user, quiz_id) ==
    IF ~OwnedQuiz(user, quiz_id)
    THEN [code |-> 404]
    ELSE [code |-> 200, quiz |-> quiz_to_dict(quiz_id)]

\* GET /quizzes/{id}/submissions: the caller's submissions to a quiz of theirs
get_quiz_submissions(user, quiz_id) ==
    IF ~OwnedQuiz(user, quiz_id)
    THEN [code |-> 404]
    ELSE [code |-> 200,
          submissions |->
              {submission_to_dict(x) :
                  x \in {y \in DOMAIN submissions :
                            /\ submissions[y].quiz_id = quiz_id
                            /\ submissions[y].user_id = user}}]

\* DELETE /quizzes/{id}: the status code of the answer
delete_quiz_code(user, quiz_id) == IF OwnedQuiz(user, quiz_id) THEN 200 ELSE 404

\* delete_quiz: db.delete(quiz) removes the questions and the submissions of
\* the quiz through the relationships of the model, then the quiz.
delete_quiz(user, quiz_id) ==
    IF delete_quiz_code(user, quiz_id) # 200
    THEN UNCHANGED vars
    ELSE /\ quizzes' = Drop(quizzes, {quiz_id})
         /\ questions' = Drop(questions, QuestionsOf({quiz_id}))
         /\ submissions' = Drop(submissions, SubmissionsOf({quiz_id}))
         /\ UNCHANGED <<documents, nextId, fkCascade, files, now, tasks, run, started,
                        uploadResponse>>

\* ------------------------------------------------------------ the inputs
ContentTypes == {"application/pdf", "text/plain"}
\* body lengths in bytes: a small file, the largest allowed, one byte more
FileSizes == {MAX_FILE_SIZE \div 2, MAX_FILE_SIZE, MAX_FILE_SIZE + 1}
PlainFileSize == MAX_FILE_SIZE \div 2
\* The users are interchangeable and so are the seconds of the clock: the
\* first upload is by user 1 in second 0, a later one by anyone, in the second
\* of the upload before it or in the next one.
Uploaders == IF nextId.document = 1 THEN {1} ELSE Users
Times == IF nextId.document = 1 THEN {now} ELSE {now, now + 1}
\* ids a caller may name: every id issued so far and one never issued
DocumentIds == 1..nextId.document
QuizIds == 1..nextId.quiz
QuestionIds == 1..nextId.question

\* the body of POST /quizzes/generate without options:
\* options.get("difficulty", "medium"), options.get("questionCount", 10)
DefaultOptions == [difficulty |-> "medium", questionCount |-> 10]
\* replies to the prompt of POST /quizzes/generate
GoodQuizReply == ApiText(<<"[", "Q1", ",", " ", "Q2", "]">>)
QuizReplies ==
    { ApiError,
      GoodQuizReply,
      ApiText(<<"'''json", " ", "[", "Q1", ",", "Qna", "]", " ", "'''">>),
      ApiText(<<"{q}">>) }
Difficulties == {"medium", "expert"}
QuestionCounts == {-1, 0, 1, 10, 60}
AnswerChoices == {"A", "B"}

\* QuizAnswerRequest, and the answers lists of a submission
AnswerRequests ==
    [questionId : QuestionIds, answer : AnswerChoices, isCorrect : BOOLEAN]
AnswerLists ==
    UNION {[1..n -> AnswerRequests] : n \in 0..MaxAnswers}
\* submissions that answer nothing, or the first question of the quiz with "A"
PlainAnswerLists ==
    {<< >>} \cup {<<[questionId |-> q, answer |-> "A", isCorrect |-> FALSE]>> :
                     q \in {x \in QuestionIds : x \in DOMAIN questions
                                                /\ questions[x].order_index = 0}}

\* ------------------------------------------------- the whole application
\* Uploads, their processing runs and deletions in any interleaving, with
\* quizzes requested with the default options and plain submissions.  A
\* request for a document that is answered 404 leaves every variable as it
\* is, so the deletions and quiz requests listed are those for a document
\* the caller is found to own.
Next ==
    \/ \E user \in Uploaders, content_type \in ContentTypes, kind \in PdfKinds,
          time \in Times :
           upload_document(user, content_type, PlainFileSize, kind, time)
    \/ \E i \in 1..Len(tasks) : process_document_background(i)
    \/ \E id \in DOMAIN run : process_document_start(id)
    \/ \E id \in DOMAIN run : process_document_extract(id)
    \/ \E id \in DOMAIN run, reply \in SummarizerReplies : process_document_summarize(id, reply)
    \/ \E id \in DOMAIN run, reply \in GeneratorReplies : process_document_generate(id, reply)
    \/ \E id \in DOMAIN run : process_document_save(id)
    \/ \E id \in DOMAIN run : process_document_handler(id)
    \/ \E user \in Users, id \in DocumentIds :
           OwnedDocument(user, id) /\ delete_document(user, id)
    \/ \E user \in Users, id \in DocumentIds, reply \in {ApiError, GoodQuizReply} :
           /\ OwnedDocument(user, id)
           /\ generate_quiz(user, id, DefaultOptions.difficulty,
                            DefaultOptions.questionCount, reply)
    \/ \E user \in Users, quiz_id \in QuizIds, answers \in PlainAnswerLists :
           submit_quiz(user, quiz_id, answers)

Spec == Init /\ [][Next]_vars

\* ------------------------------------------------- the quiz endpoints
\* The state Spec reaches when user 1 has uploaded a PDF with text and its run
\* has ended with well-formed summarizer output and no question generated.
ProcessedDocument ==
    LET path == <<1, 0>>
        fs == Put(<< >>, path, "text")
        got == generate_summary_and_topics(CHOOSE r \in SummarizerReplies : WellFormedSummary(r))
    IN  [NewDocument(1, path, PlainFileSize, "application/pdf") EXCEPT
            !.content = Some(extract_pdf_text(fs, path).text),
            !.page_count = Some(get_pdf_page_count(fs, path)),
            !.summary = Some(got.summary),
            !.key_topics = Some(got.key_topics),
            !.processing_status = COMPLETED,
            !.processed_at = Some(0)]

InitQuiz ==
    /\ documents = Put(<< >>, 1, ProcessedDocument)
    /\ quizzes = << >>
    /\ questions = << >>
    /\ submissions = << >>
    /\ nextId = [document |-> 2, quiz |-> 1, question |-> 1, submission |-> 1]
    /\ fkCascade \in BOOLEAN
    /\ files = Put(<< >>, <<1, 0>>, "text")
    /\ now = 0
    /\ tasks = << >>
    /\ run = Put(<< >>, 1, DoneRun)
    /\ started = Put(<< >>, 1, 1)
    /\ uploadResponse = Put(<< >>, 1, to_dict(1, NewDocument(1, <<1, 0>>, PlainFileSize, "application/pdf")))

\* Quiz generation with any options and reply, submissions with any answers
\* list, and deletion, on the processed document.
NextQuiz ==
    \/ \E user \in Users, id \in DocumentIds, difficulty \in Difficulties,
          questionCount \in QuestionCounts, reply \in QuizReplies :
           generate_quiz(user, id, difficulty, questionCount, reply)
    \/ \E user \in Users, quiz_id \in QuizIds, answers \in AnswerLists :
           submit_quiz(user, quiz_id, answers)
    \/ \E user \in Users, id \in DocumentIds : delete_document(user, id)
    \/ \E user \in Users, quiz_id \in QuizIds : delete_quiz(user, quiz_id)

SpecQuiz == InitQuiz /\ [][NextQuiz]_vars

\* ------------------------------------------------------------ the uploads
\* Uploads of bodies of every length and their processing runs.
NextUpload ==
    \/ \E user \in Uploaders, content_type \in ContentTypes, file_size \in FileSizes,
          kind \in PdfKinds, time \in Times :
           upload_document(user, content_type, file_size, kind, time)
    \/ \E i \in 1..Len(tasks) : process_document_background(i)
    \/ \E id \in DOMAIN run : process_document_start(id)
    \/ \E id \in DOMAIN run : process_document_extract(id)
    \/ \E id \in DOMAIN run, reply \in SummarizerReplies : process_document_summarize(id, reply)
    \/ \E id \in DOMAIN run, reply \in GeneratorReplies : process_document_generate(id, reply)
    \/ \E id \in DOMAIN run : process_document_save(id)
    \/ \E id \in DOMAIN run : process_document_handler(id)

SpecUpload == Init /\ [][NextUpload]_vars

\* ------------------------------------------------------- the summarizer
\* The state Spec reaches when user 1 has uploaded a PDF with text and its run
\* has stored the extracted text and is about to call the summarizer.
InitSummary ==
    LET path == <<1, 0>>
        fs == Put(<< >>, path, "text")
        text == extract_pdf_text(fs, path).text
        document == NewDocument(1, path, PlainFileSize, "application/pdf")
    IN  /\ documents =
               Put(<< >>, 1, [document EXCEPT
                                 !.content = Some(text),
                                 !.page_count = Some(get_pdf_page_count(fs, path)),
                                 !.processing_status = PROCESSING])
        /\ quizzes = << >>
        /\ questions = << >>
        /\ submissions = << >>
        /\ nextId = [document |-> 2, quiz |-> 1, question |-> 1, submission |-> 1]
        /\ fkCascade \in BOOLEAN
        /\ files = fs
        /\ now = 0
        /\ tasks = << >>
        /\ run = Put(<< >>, 1, [NewRun EXCEPT !.pc = "summarize", !.text_content = text])
        /\ started = Put(<< >>, 1, 1)
        /\ uploadResponse = Put(<< >>, 1, to_dict(1, document))

\* every text of at most MaxReplyLen tokens out of the markers, a word,
\* whitespace, the brackets and a string literal
SummaryTokens == {"SUMMARY:", "KEY_TOPICS:", "w", " ", "[", "]", "\"a\""}
SummaryTexts == UNION {[1..n -> SummaryTokens] : n \in 0..MaxReplyLen}

\* The summarizer call of the run, with every reply.
NextSummary ==
    \E id \in {i \in DOMAIN run : run[i].pc = "summarize"} :
        \E reply \in {ApiError, ApiNone} \cup {ApiText(c) : c \in SummaryTexts} :
            process_document_summarize(id, reply)

SpecSummary == InitSummary /\ [][NextSummary]_vars

\* ------------------------------------------------------- the submissions
\* The state SpecQuiz reaches when the owner has had a quiz generated from
\* GoodQuizReply with the default options: quiz 1 with the questions 1 and 2.
InitScore ==
    LET questions_data ==
            generate_questions_ai(GoodQuizReply, question_count(DefaultOptions.questionCount))
    IN  /\ documents = Put(<< >>, 1, ProcessedDocument)
        /\ quizzes = Put(<< >>, 1,
                         [document_id |-> 1, title |-> Some("Quiz"),
                          difficulty |-> DefaultOptions.difficulty,
                          estimated_duration |->
                              Some(Max(5, question_count(DefaultOptions.questionCount) * 2))])
        /\ questions = NewQuestions(1, questions_data, 1)
        /\ submissions = << >>
        /\ nextId = [document |-> 2, quiz |-> 2,
                     question |-> 1 + Len(questions_data), submission |-> 1]
        /\ fkCascade \in BOOLEAN
        /\ files = Put(<< >>, <<1, 0>>, "text")
        /\ now = 0
        /\ tasks = << >>
        /\ run = Put(<< >>, 1, DoneRun)
        /\ started = Put(<< >>, 1, 1)
        /\ uploadResponse = Put(<< >>, 1, to_dict(1, NewDocument(1, <<1, 0>>, PlainFileSize, "application/pdf")))

\* answers lists that name stored questions in the order of their ids (one
\* question may be answered more than once), with either answer and either flag
StoredAnswerLists ==
    {answers \in UNION {[1..n -> [questionId : DOMAIN questions,
                                  answer : AnswerChoices,
                                  isCorrect : BOOLEAN]] : n \in 0..MaxAnswers} :
        \A i \in 1..(Len(answers) - 1) :
            answers[i].questionId <= answers[i + 1].questionId}

\* Submissions by anyone to any quiz id, one after the other, up to the bound.
NextScore ==
    /\ nextId.submission <= MaxSubmissions
    /\ \E user \in Users, quiz_id \in QuizIds, answers \in StoredAnswerLists :
           submit_quiz(user, quiz_id, answers)

SpecScore == InitScore /\ [][NextScore]_vars

\* ------------------------------------------------------------ properties
\* the changes of processing_status the lifecycle allows
StatusChanges ==
    {<<PENDING, PROCESSING>>, <<PROCESSING, COMPLETED>>, <<PROCESSING, FAILED>>}

\* C1: whatever step is taken (upload, a step of a processing run, quiz
\* generation, submission, deletion), a document that exists before and after
\* it either keeps its processing_status or changes it pending->processing,
\* processing->processed or processing->failed; so processed and failed are
\* never left.
C1_StatusTransitions ==
    [][\A id \in DOMAIN documents \cap DOMAIN documents' :
          documents'[id].processing_status # documents[id].processing_status
              => <<documents[id].processing_status,
                   documents'[id].processing_status>> \in StatusChanges]_vars

\* A run has ended with its document processed, and a quiz was generated for
\* the document and a submission stored afterwards, the status staying processed.
C1_Witness ==
    \E id \in DOMAIN documents :
        /\ At(id, "done")
        /\ documents[id].processing_status = COMPLETED
        /\ QuizzesOf(id) # {}
        /\ SubmissionsOf(QuizzesOf(id)) # {}

\* C2: a document whose status is not processed has content, summary and
\* key_topics all null.
C2_ResultsOnlyWhenProcessed ==
    \A id \in DOMAIN documents :
        documents[id].processing_status # COMPLETED
            => /\ IsNull(documents[id].content)
               /\ IsNull(documents[id].summary)
               /\ IsNull(documents[id].key_topics)

\* how many times a document id is waiting in the background-task queue
Scheduled(queue, id) == Cardinality({i \in 1..Len(queue) : queue[i] = id})

\* C3: the step that creates a document creates it pending, answers with a
\* representation of it whose status is pending, and starts no run in that
\* step; and after every step each uploaded document has had exactly one run
\* scheduled for it, waiting or started (never none, never two).
C3_UploadSchedulesOneRun ==
    [][/\ \A id \in DOMAIN documents' \ DOMAIN documents :
             /\ documents'[id].processing_status = PENDING
             /\ uploadResponse'[id].id = id
             /\ uploadResponse'[id].status = PENDING
             /\ id \notin DOMAIN run'
       /\ \A id \in DOMAIN uploadResponse' :
             Scheduled(tasks', id) + started'[id] = 1]_vars

\* The run of an uploaded document has started and moved its status on, after
\* the upload had answered pending.
C3_Witness ==
    \E id \in DOMAIN documents :
        /\ uploadResponse[id].status = PENDING
        /\ started[id] = 1
        /\ Scheduled(tasks, id) = 0
        /\ documents[id].processing_status # PENDING

\* This step is the last of the processing run of document id.
RunEnds(id) == id \in DOMAIN run /\ run[id].pc # "done" /\ run'[id].pc = "done"

\* what GET /documents/{id}/status answers the owner after this step
StatusAfter(id) == get_document_status(documents[id].user_id, id)'

\* C4: a run that extracted text and got well-formed output from the
\* summarizer and from the generator ends with the document (if it still
\* exists) processed, and the status endpoint then answers
\* processing_complete true with a non-null processed_at.
C4_WellFormedRunProcessed ==
    [][\A id \in DOMAIN run :
          ( /\ RunEnds(id)
            /\ id \in DOMAIN documents /\ id \in DOMAIN documents'
            /\ run[id].text_content # << >>
            /\ WellFormedSummary(run[id].summarizer_reply)
            /\ WellFormedQuestions(run[id].generator_reply) )
          => /\ documents'[id].processing_status = COMPLETED
             /\ StatusAfter(id).processing_complete
             /\ ~IsNull(StatusAfter(id).processed_at)]_vars

\* the generator handed the run n >= 1 question records
GeneratedQuestions(r) ==
    /\ r.quiz_questions.kind = "list"
    /\ r.quiz_questions.items # << >>
    /\ \A i \in 1..Len(r.quiz_questions.items) : r.quiz_questions.items[i] \in RecordTokens

\* C5: a run whose extractor, summarizer and generator succeeded with n >= 1
\* generated questions ends with the document (if it still exists) not failed
\* but processed, and its last step creates exactly one Quiz of that document,
\* holding the n questions in generation order.
C5_OneQuizWithQuestions ==
    [][\A id \in DOMAIN run :
          ( /\ RunEnds(id)
            /\ id \in DOMAIN documents'
            /\ run[id].text_content # << >>
            /\ GeneratedQuestions(run[id]) )
          => LET items == run[id].quiz_questions.items
                 created == {q \in DOMAIN quizzes' \ DOMAIN quizzes :
                                quizzes'[q].document_id = id}
             IN  /\ documents'[id].processing_status = COMPLETED
                 /\ Cardinality(created) = 1
                 /\ \A q \in created :
                       /\ Cardinality({x \in DOMAIN questions' :
                                          questions'[x].quiz_id = q}) = Len(items)
                       /\ \A i \in 1..Len(items) :
                             \E x \in DOMAIN questions' :
                                 /\ questions'[x].quiz_id = q
                                 /\ questions'[x].order_index = i - 1
                                 /\ questions'[x].question_text =
                                        RecordGet(items[i], "question")]_vars

\* C6: a run that raised after it had found its document ends, if the document
\* still exists, with the document failed and with content, page_count,
\* summary and key_topics null and no Quiz row of the document.
C6_FailedRunPersistsNothing ==
    [][\A id \in DOMAIN run :
          ( /\ RunEnds(id)
            /\ run[id].pc = "handler"
            /\ id \in DOMAIN documents' )
          => /\ documents'[id].processing_status = FAILED
             /\ IsNull(documents'[id].content)
             /\ IsNull(documents'[id].page_count)
             /\ IsNull(documents'[id].summary)
             /\ IsNull(documents'[id].key_topics)
             /\ \A q \in DOMAIN quizzes' : quizzes'[q].document_id # id]_vars

\* C7: when the file of a document cannot be read or has no text, the
\* extractor returns the empty text without raising and the run goes to its
\* failure handler with the summarizer and the generator not called; the
\* summarizer and the generator are only ever called by a run that holds
\* non-empty text; and a run that ends without text leaves its document, if it
\* still exists, failed.
C7_EmptyExtractionFails ==
    [][\A id \in DOMAIN run :
          /\ ( /\ At(id, "extract")
               /\ id \in DOMAIN documents
               /\ extract_pdf_text(files, documents[id].file_path).text = << >>
               /\ run'[id] # run[id] )
             => /\ ~extract_pdf_text(files, documents[id].file_path).raised
                /\ ~run'[id].extractor_raised
                /\ run'[id].pc = "handler"
                /\ run'[id].summarizer_reply = NotCalled
                /\ run'[id].generator_reply = NotCalled
          /\ ( /\ run'[id].pc # "done"
               /\ \/ run'[id].summarizer_reply # run[id].summarizer_reply
                  \/ run'[id].generator_reply # run[id].generator_reply )
             => run[id].text_content # << >>
          /\ ( /\ RunEnds(id)
               /\ run[id].pc # "start"
               /\ run[id].text_content = << >>
               /\ id \in DOMAIN documents' )
             => documents'[id].processing_status = FAILED]_vars

\* The run of a file PdfReader cannot parse has ended, with its document failed.
C7_Witness ==
    \E id \in DOMAIN documents :
        /\ At(id, "done")
        /\ documents[id].file_path \in DOMAIN files
        /\ files[documents[id].file_path] = "corrupt"
        /\ documents[id].processing_status = FAILED

\* C8: a run that holds non-empty text and whose summarizer or generator
\* failed (transport error or unparseable output) ends with the document (if
\* it still exists) processed: with the summary "Summary generation failed"
\* and an empty topic list when the summarizer failed, and with an empty
\* question list and no Quiz when the generator failed.
C8_ComponentFailureStillProcessed ==
    [][\A id \in DOMAIN run :
          ( /\ RunEnds(id)
            /\ id \in DOMAIN documents'
            /\ run[id].text_content # << >>
            /\ \/ SummarizerFailed(run[id].summarizer_reply)
               \/ GeneratorFailed(run[id].generator_reply) )
          => /\ documents'[id].processing_status = COMPLETED
             /\ SummarizerFailed(run[id].summarizer_reply)
                   => /\ documents'[id].summary = Some(SUMMARY_FAILED)
                      /\ documents'[id].key_topics = Some(<< >>)
             /\ GeneratorFailed(run[id].generator_reply)
                   => /\ run[id].quiz_questions = EmptyList
                      /\ \A q \in DOMAIN quizzes' : quizzes'[q].document_id # id]_vars

\* C9: the score stored with every submission is an integer from 0 to 100.
C9_ScoreInRange ==
    \A s \in DOMAIN submissions : submissions[s].score \in 0..100

\* the questions of a quiz that some submitted answer names with the stored
\* correct answer
QuestionsAnsweredCorrectly(quiz_id, answers) ==
    {x \in QuestionsOf({quiz_id}) :
        \E i \in 1..Len(answers) :
            /\ answers[i].questionId = x
            /\ answers[i].answer = questions[x].correct_answer}

\* C10: the score of every submission is the number of questions of its quiz
\* that were answered correctly, times 100, divided by the number of questions
\* of the quiz and rounded down; it is 0 for a quiz without questions.
C10_ScoreIsPercentOfQuestions ==
    \A s \in DOMAIN submissions :
        LET quiz_id == submissions[s].quiz_id
            total == Cardinality(QuestionsOf({quiz_id}))
            correct == Cardinality(QuestionsAnsweredCorrectly(quiz_id, submissions[s].answers))
        IN  submissions[s].score = IF total = 0 THEN 0 ELSE (correct * 100) \div total

\* the answers lists that differ from answers in isCorrect flags only
FlagVariants(answers) ==
    {[i \in 1..Len(answers) |-> [answers[i] EXCEPT !.isCorrect = f[i]]] :
        f \in [1..Len(answers) -> BOOLEAN]}

\* C11: the score stored with a submission is the score of every answers list
\* that differs from the submitted one in isCorrect flags only, and two stored
\* submissions to one quiz whose answers differ in those flags only carry the
\* same score.
C11_ScoreIgnoresIsCorrect ==
    /\ \A s \in DOMAIN submissions :
          \A other \in FlagVariants(submissions[s].answers) :
              calculate_score(QuestionsOf({submissions[s].quiz_id}), other)
                  = submissions[s].score
    /\ \A s, t \in DOMAIN submissions :
          ( /\ submissions[s].quiz_id = submissions[t].quiz_id
            /\ submissions[t].answers \in FlagVariants(submissions[s].answers) )
          => submissions[s].score = submissions[t].score

\* A stored submission answers one question correctly with isCorrect false
\* and the other wrongly with isCorrect true, and scores 50.
C11_Witness ==
    \E s \in DOMAIN submissions :
        LET answers == submissions[s].answers IN
        /\ Len(answers) = 2
        /\ answers[1].questionId # answers[2].questionId
        /\ answers[1].answer = questions[answers[1].questionId].correct_answer
        /\ ~answers[1].isCorrect
        /\ answers[2].answer # questions[answers[2].questionId].correct_answer
        /\ answers[2].isCorrect
        /\ submissions[s].score = 50

EndpointQuizzes(table) == {q \in DOMAIN table : ~IsNull(table[q].title)}

\* C13: POST /quizzes/generate by the owner of a document that is pending,
\* processing or failed is answered 400, whatever the reply of the model; a
\* step that adds a Quiz row built by the endpoint adds it for a document
\* that was processed, and a step that adds Question rows adds them for such
\* a Quiz, so that a request for a document in another status leaves the
\* Quiz and Question rows as they were.
C13_GenerateNeedsProcessed ==
    [][/\ \A id \in DOMAIN documents :
             documents[id].processing_status # COMPLETED
             => \A reply \in {ApiError, GoodQuizReply} :
                    generate_code(documents[id].user_id, id, DefaultOptions.difficulty,
                                  DefaultOptions.questionCount, reply) = 400
       /\ \A q \in EndpointQuizzes(quizzes') \ DOMAIN quizzes :
             /\ quizzes'[q].document_id \in DOMAIN documents
             /\ documents[quizzes'[q].document_id].processing_status = COMPLETED
       /\ \A x \in DOMAIN questions' \ DOMAIN questions :
             questions'[x].quiz_id \in EndpointQuizzes(quizzes') \ DOMAIN quizzes]_vars

\* A document that is not processed holds extracted text, so that only the
\* status check stands between a request of its owner and a Quiz; no Quiz exists.
C13_Witness ==
    \E id \in DOMAIN documents :
        /\ documents[id].processing_status \in {PROCESSING, FAILED}
        /\ ~Falsy(documents[id].content)
        /\ generate_code(documents[id].user_id, id, DefaultOptions.difficulty,
                         DefaultOptions.questionCount, GoodQuizReply) = 400
        /\ quizzes = << >>

\* C14: a DELETE /documents/{id} by the owner that is answered 200 removes the
\* Document, and a step that removes a Document leaves no Quiz of it, no
\* Question and no QuizSubmission of those quizzes, and no file at its path.
C14_DeleteRemovesEverything ==
    [][/\ \A id \in DOMAIN documents :
             ( /\ delete_code(documents[id].user_id, id) = 200
               /\ delete_document(documents[id].user_id, id) )
             => id \notin DOMAIN documents'
       /\ \A id \in DOMAIN documents \ DOMAIN documents' :
             LET gone == {q \in DOMAIN quizzes : quizzes[q].document_id = id} IN
             /\ \A q \in DOMAIN quizzes' : quizzes'[q].document_id # id
             /\ gone \cap DOMAIN quizzes' = {}
             /\ \A x \in DOMAIN questions' : questions'[x].quiz_id \notin gone
             /\ \A x \in DOMAIN submissions' : submissions'[x].quiz_id \notin gone
             /\ documents[id].file_path \notin DOMAIN files']_vars

\* A document that had a quiz with questions and a submission has been
\* deleted: every table and the storage are empty again.
C14_Witness ==
    /\ nextId.document > 1 /\ nextId.quiz > 1
    /\ nextId.question > 1 /\ nextId.submission > 1
    /\ documents = << >> /\ quizzes = << >> /\ questions = << >>
    /\ submissions = << >> /\ files = << >>

\* the documents and the quizzes that exist and belong to somebody else
ForeignDocuments(user) == {id \in DOMAIN documents : documents[id].user_id # user}
ForeignQuizzes(user) ==
    {q \in DOMAIN quizzes : quizzes[q].document_id \in ForeignDocuments(user)}

\* C15: to a user who does not own it, a document answers on every document
\* endpoint (get, status, summary, delete, quiz generation) exactly as a
\* document id never issued does, with 404, and a quiz of it answers on every
\* quiz endpoint (get, submissions, submit, delete) as a quiz id never issued
\* does, with 404; no such request can change a variable; and the list
\* endpoints answer a caller with documents of the caller and quizzes of
\* those only.
C15_NonOwnerSeesNothing ==
    \A user \in Users :
        LET noDocument == nextId.document
            noQuiz == nextId.quiz
        IN
        /\ \A id \in ForeignDocuments(user) :
              /\ get_document(user, id) = [code |-> 404]
              /\ get_document(user, id) = get_document(user, noDocument)
              /\ get_document_status(user, id) = get_document_status(user, noDocument)
              /\ get_document_summary(user, id) = get_document_summary(user, noDocument)
              /\ delete_code(user, id) = 404
              /\ delete_code(user, noDocument) = 404
              /\ ~ENABLED (delete_document(user, id) /\ vars' # vars)
              /\ \A reply \in {ApiError, GoodQuizReply} :
                    /\ generate_code(user, id, DefaultOptions.difficulty,
                                     DefaultOptions.questionCount, reply) = 404
                    /\ ~ENABLED ( /\ generate_quiz(user, id, DefaultOptions.difficulty,
                                                   DefaultOptions.questionCount, reply)
                                  /\ vars' # vars )
        /\ \A q \in ForeignQuizzes(user) :
              /\ get_quiz(user, q) = [code |-> 404]
              /\ get_quiz(user, q) = get_quiz(user, noQuiz)
              /\ get_quiz_submissions(user, q) = get_quiz_submissions(user, noQuiz)
              /\ submit_code(user, q) = 404
              /\ submit_code(user, noQuiz) = 404
              /\ \A answers \in PlainAnswerLists :
                    ~ENABLED (submit_quiz(user, q, answers) /\ vars' # vars)
              /\ delete_quiz_code(user, q) = 404
              /\ delete_quiz_code(user, noQuiz) = 404
              /\ ~ENABLED (delete_quiz(user, q) /\ vars' # vars)
        /\ \A d \in get_documents(user) : d.userId = user
        /\ \A z \in get_quizzes(user) : z.documentId \notin ForeignDocuments(user)

\* User 1 owns a document with a quiz and a submission that user 1 can read,
\* and user 2, who owns nothing, is answered 404 and empty lists.
C15_Witness ==
    \E id \in DOMAIN documents, q \in DOMAIN quizzes, s \in DOMAIN submissions :
        /\ documents[id].user_id = 1
        /\ quizzes[q].document_id = id
        /\ submissions[s].quiz_id = q
        /\ get_document(1, id).code = 200
        /\ get_quiz(1, q).code = 200
        /\ get_quiz_submissions(1, q).submissions # {}
        /\ get_document(2, id).code = 404
        /\ get_quiz(2, q).code = 404
        /\ get_documents(2) = {}
        /\ get_quizzes(2) = {}

\* C16: an upload that is not declared application/pdf, or whose body is
\* longer than MAX_FILE_SIZE, is answered with a 4xx code, and no Document, no
\* stored file and no scheduled run comes from it: every upload that was
\* answered with its Document, every Document row, every stored file and
\* every scheduled run is of a PDF of at most MAX_FILE_SIZE bytes.
C16_BadUploadRejected ==
    /\ \A content_type \in ContentTypes \ {"application/pdf"}, file_size \in FileSizes :
          upload_code(content_type, file_size) \in 400..499
    /\ \A id \in DOMAIN uploadResponse :
          /\ uploadResponse[id].mimeType = "application/pdf"
          /\ uploadResponse[id].fileSize <= MAX_FILE_SIZE
    /\ \A id \in DOMAIN documents :
          /\ documents[id].mime_type = "application/pdf"
          /\ documents[id].file_size <= MAX_FILE_SIZE
    /\ \A path \in DOMAIN files :
          \E id \in DOMAIN documents :
              documents[id].file_path = path /\ documents[id].file_size <= MAX_FILE_SIZE
    /\ \A i \in 1..Len(tasks) :
          tasks[i] \in DOMAIN documents => documents[tasks[i]].file_size <= MAX_FILE_SIZE

\* a generated record with the question text, the options and the answer key
CompleteRecord(item) == item \in RecordTokens /\ RequiredKeys \subseteq RecordKeys(item)

\* a list of records of which some are complete and some are not
MixedRecords(items) ==
    /\ \A i \in 1..Len(items) : items[i] \in RecordTokens
    /\ \E i \in 1..Len(items) : CompleteRecord(items[i])
    /\ \E i \in 1..Len(items) : ~CompleteRecord(items[i])

\* C17: the list of questions a processing run gets from its generator, and
\* the list POST /quizzes/generate gets, hold complete records only (a record
\* without question text, options or answer key is dropped, the others keep
\* their order); and a run whose generator returned complete and incomplete
\* records does not end with its document failed because of them.
C17_MalformedRecordsDropped ==
    [][/\ \A id \in DOMAIN run :
             ( /\ At(id, "generate")
               /\ run'[id].pc = "save"
               /\ run'[id].quiz_questions.kind = "list" )
             => \A i \in 1..Len(run'[id].quiz_questions.items) :
                    CompleteRecord(run'[id].quiz_questions.items[i])
       /\ \A id \in DOMAIN run :
             ( /\ RunEnds(id)
               /\ id \in DOMAIN documents'
               /\ run[id].quiz_questions.kind = "list"
               /\ MixedRecords(run[id].quiz_questions.items) )
             => documents'[id].processing_status # FAILED
       /\ \A reply \in QuizReplies :
             LET got == generate_questions_ai(reply, DefaultOptions.questionCount) IN
             /\ \A i \in 1..Len(got) : CompleteRecord(got[i])
             /\ MixedRecords(generate_quiz_questions(reply).items) => got # << >>]_vars

\* C18: when POST /quizzes/generate creates a Quiz for a requested
\* questionCount (0, negative and above 50 included), the Quiz holds at most
\* min(questionCount, 50) questions, and they are the first valid records of
\* the reply in their order, none added.
C18_AtMostRequestedQuestions ==
    [][\A user \in Users, id \in DOMAIN documents, difficulty \in Difficulties,
          questionCount \in QuestionCounts, reply \in QuizReplies :
          ( /\ generate_quiz(user, id, difficulty, questionCount, reply)
            /\ quizzes' # quizzes )
          => LET created == DOMAIN quizzes' \ DOMAIN quizzes
                 added == {x \in DOMAIN questions' : questions'[x].quiz_id \in created}
                 valid == generate_questions_ai(reply, MAX_QUESTIONS)
             IN  /\ Cardinality(created) = 1
                 /\ Cardinality(added) <= Min(questionCount, MAX_QUESTIONS)
                 /\ Cardinality(added) <= Len(valid)
                 /\ \A x \in added :
                       /\ questions'[x].order_index + 1 \in 1..Len(valid)
                       /\ questions'[x].question_text =
                              RecordGet(valid[questions'[x].order_index + 1], "question")
                       /\ \A y \in added :
                              questions'[y].order_index = questions'[x].order_index
                                  => y = x]_vars

\* the section of a marker: the text after its first occurrence, up to the
\* next marker or the end
Markers == {"SUMMARY:", "KEY_TOPICS:"}
SectionOf(content, marker) ==
    LET rest == SubSeq(content, FirstIndex(content, marker) + 1, Len(content))
        ends == {k \in 1..Len(rest) : rest[k] \in Markers}
    IN  IF ends = {} THEN rest
        ELSE SubSeq(rest, 1, (CHOOSE k \in ends : \A j \in ends : k <= j) - 1)
Occurrences(content, marker) == Cardinality({k \in 1..Len(content) : content[k] = marker})

\* C19: for a reply that is text, the summarizer's result is (the whole text
\* trimmed, no topics) when a marker is missing; with both markers (each
\* once) and a bracketed span in the topics section, it is (the text of the
\* summary section trimmed, the parsed topics) when the first span is valid
\* JSON and (the whole text trimmed, no topics) when it is not.
C19_SummaryParse ==
    \A id \in DOMAIN run :
        (run[id].pc = "generate" /\ run[id].summarizer_reply.kind = "text")
        => LET content == run[id].summarizer_reply.content
               got == <<run[id].summary, run[id].key_topics>>
           IN  IF ~Contains(content, "SUMMARY:") \/ ~Contains(content, "KEY_TOPICS:")
               THEN got = <<strip(content), << >> >>
               ELSE ( /\ Occurrences(content, "SUMMARY:") = 1
                      /\ Occurrences(content, "KEY_TOPICS:") = 1
                      /\ BracketMatch(SectionOf(content, "KEY_TOPICS:")) )
                    => LET span == BracketGroup(SectionOf(content, "KEY_TOPICS:")) IN
                       IF JsonArrayOk(span)
                       THEN got = <<strip(SectionOf(content, "SUMMARY:")),
                                    JsonArrayValue(span)>>
                       ELSE got = <<strip(content), << >> >>

\* the strings the summary endpoint answers when it has no summary to show
Placeholders ==
    { <<"Summary is being generated. Please wait...">>,
      <<"Summary generation failed. Please try re-uploading the document.">>,
      <<"Summary not yet available. Document may still be processing.">> }

\* C20: to its owner, a document answers on the status endpoint with one of
\* pending, processing, processed, failed, and on the summary endpoint with
\* 200: with a placeholder while it is not processed, and with the stored
\* summary, never a placeholder, once it is processed.
C20_StatusAndSummaryAnswers ==
    \A id \in DOMAIN documents :
        LET user == documents[id].user_id
            status == get_document_status(user, id)
            answer == get_document_summary(user, id)
        IN  /\ status.code = 200
            /\ status.status \in ProcessingStatus
            /\ answer.code = 200
            /\ documents[id].processing_status # COMPLETED
                   => answer.summary \in Placeholders
            /\ documents[id].processing_status = COMPLETED
                   => /\ ~IsNull(documents[id].summary)
                      /\ answer.summary = TheValue(documents[id].summary)
                      /\ answer.summary \notin Placeholders

\* ------------------------------------------------ a run invoked once more
\* DocumentService.process_document(document_id) called by any caller for a
\* document whose earlier run has returned: the coroutine is entered with
\* fresh locals (db = SessionLocal()), whatever the status of the document.
process_document(id) ==
    /\ At(id, "done")
    /\ started[id] < MaxRuns
    /\ run' = [run EXCEPT ![id] = NewRun]
    /\ started' = [started EXCEPT ![id] = @ + 1]
    /\ UNCHANGED <<documents, quizzes, questions, submissions, nextId, fkCascade, files,
                   now, tasks, uploadResponse>>

\* Runs invoked on the processed document of InitQuiz, one after the other,
\* each on a document that is processed as the run is entered.
NextRerun ==
    \/ \E id \in {d \in DOMAIN documents : documents[d].processing_status = COMPLETED} :
           process_document(id)
    \/ \E id \in DOMAIN run : process_document_start(id)
    \/ \E id \in DOMAIN run : process_document_extract(id)
    \/ \E id \in DOMAIN run, reply \in SummarizerReplies : process_document_summarize(id, reply)
    \/ \E id \in DOMAIN run, reply \in GeneratorReplies : process_document_generate(id, reply)
    \/ \E id \in DOMAIN run : process_document_save(id)
    \/ \E id \in DOMAIN run : process_document_handler(id)

SpecRerun == InitQuiz /\ [][NextRerun]_vars

\* C21: no step of a processing run that was invoked on a processed document
\* changes the processing_status, the summary or the key_topics of the
\* document, or the set of Quiz rows of the document.
C21_RerunGuarded ==
    [][\A id \in DOMAIN documents \cap DOMAIN documents' :
          /\ documents'[id].processing_status = documents[id].processing_status
          /\ documents'[id].summary = documents[id].summary
          /\ documents'[id].key_topics = documents[id].key_topics
          /\ {q \in DOMAIN quizzes' : quizzes'[q].document_id = id} = QuizzesOf(id)]_vars

\* ------------------------------------------------- answers that nearly match
\* answer strings: a stored key, the key in lower case, the key followed by a
\* blank, and the other key
ExactAnswerChoices == {"A", "a", "A ", "B"}

\* answers lists over those strings, naming stored questions in the order of
\* their ids, the isCorrect flag left false
ExactAnswerLists ==
    {answers \in UNION {[1..n -> [questionId : DOMAIN questions,
                                  answer : ExactAnswerChoices,
                                  isCorrect : {FALSE}]] : n \in 0..MaxAnswers} :
        \A i \in 1..(Len(answers) - 1) :
            answers[i].questionId <= answers[i + 1].questionId}

\* Submissions of such lists to the quiz of InitScore, up to the bound.
NextExact ==
    /\ nextId.submission <= MaxSubmissions
    /\ \E user \in Users, quiz_id \in QuizIds, answers \in ExactAnswerLists :
           submit_quiz(user, quiz_id, answers)

SpecExact == InitScore /\ [][NextExact]_vars

\* the answer differs from the stored key, but not after lower().strip()
NearMiss(a) ==
    /\ a.questionId \in DOMAIN questions
    /\ a.answer # questions[a.questionId].correct_answer
    /\ lower_strip(a.answer) = lower_strip(questions[a.questionId].correct_answer)

ResultColumns(doc) == <<doc.content, doc.page_count, doc.summary, doc.key_topics>>

\* C23: every committed step that changes a result column of a document
\* (content, page_count, summary, key_topics) or adds a Quiz row of it is the
\* step that sets its status to processed, and after it the four columns are
\* all set: a reader never finds some results of a run without the others.
C23_ResultsVisibleTogether ==
    [][\A id \in DOMAIN documents \cap DOMAIN documents' :
          ( \/ ResultColumns(documents'[id]) # ResultColumns(documents[id])
            \/ {q \in DOMAIN quizzes' : quizzes'[q].document_id = id} # QuizzesOf(id) )
          => /\ documents[id].processing_status # COMPLETED
             /\ documents'[id].processing_status = COMPLETED
             /\ \A i \in 1..4 : ~IsNull(ResultColumns(documents'[id])[i])]_vars

\* the order of the positions of a run: each step moves it to the next
\* position, to the failure handler, or out of the function
RunOrder ==
    {<<"start", "extract">>, <<"start", "done">>,
     <<"extract", "summarize">>, <<"extract", "handler">>,
     <<"summarize", "generate">>, <<"generate", "save">>,
     <<"save", "done">>, <<"save", "handler">>, <<"handler", "done">>}

\* both calls of the run of a document have returned and the run stands
\* before its write of lines 60-77, the extracted text stored
BothReturned(id) ==
    /\ At(id, "save")
    /\ run[id].summarizer_reply # NotCalled
    /\ run[id].generator_reply # NotCalled
    /\ ~IsNull(documents[id].content)

upload_code_commit_fails(content_type, file_size) ==
    IF content_type # "application/pdf" THEN 400 ELSE 500

\* an upload whose failure handler leaves the saved file where it is
upload_document_keeps_file(user, content_type, file_size, kind, time) ==
    /\ nextId.document <= MaxDocs
    /\ IF upload_code_commit_fails(content_type, file_size) # 500
       THEN UNCHANGED vars
       ELSE /\ now' = time
            /\ files' = Put(files, <<user, time>>, kind)
            /\ nextId' = [nextId EXCEPT !.document = @ + 1]
            /\ UNCHANGED <<documents, quizzes, questions, submissions, fkCascade, tasks,
                           run, started, uploadResponse>>

\* upload_document when db.commit() raises: the file has been written (lines
\* 266-267); the handler of lines 295-301 rolls back, removes the file at
\* file_path and answers 500.  The INSERT that failed has drawn the next value
\* of the id sequence, which a rollback does not give back.
upload_document_commit_fails(user, content_type, file_size, kind, time) ==
    /\ nextId.document <= MaxDocs
    /\ IF upload_code_commit_fails(content_type, file_size) # 500
       THEN UNCHANGED vars
       ELSE LET file_path == <<user, time>> IN
            /\ now' = time
            /\ files' = Drop(Put(files, file_path, kind), {file_path})
            /\ nextId' = [nextId EXCEPT !.document = @ + 1]
            /\ UNCHANGED <<documents, quizzes, questions, submissions, fkCascade, tasks,
                           run, started, uploadResponse>>

\* Uploads that are stored and uploads whose commit fails, the processing
\* runs, and deletions by the owner.
NextUploadFault ==
    \/ \E user \in Uploaders, content_type \in ContentTypes, kind \in PdfKinds,
          time \in Times :
           upload_document(user, content_type, PlainFileSize, kind, time)
    \/ \E user \in Uploaders, content_type \in ContentTypes, kind \in PdfKinds,
          time \in Times :
           upload_document_commit_fails(user, content_type, PlainFileSize, kind, time)
    \/ \E i \in 1..Len(tasks) : process_document_background(i)
    \/ \E id \in DOMAIN run : process_document_start(id)
    \/ \E id \in DOMAIN run : process_document_extract(id)
    \/ \E id \in DOMAIN run, reply \in SummarizerReplies : process_document_summarize(id, reply)
    \/ \E id \in DOMAIN run, reply \in GeneratorReplies : process_document_generate(id, reply)
    \/ \E id \in DOMAIN run : process_document_save(id)
    \/ \E id \in DOMAIN run : process_document_handler(id)
    \/ \E user \in Users, id \in DocumentIds :
           OwnedDocument(user, id) /\ delete_document(user, id)

SpecUploadFault == Init /\ [][NextUploadFault]_vars

\* C25: an upload of a PDF whose commit fails is answered with a 5xx code
\* and leaves the documents, the scheduled tasks and the runs as they were
\* and no file at the path it wrote; and no step of a processing run changes
\* the upload directory.
C25_FailedUploadCleansUp ==
    [][/\ \A user \in Users, kind \in PdfKinds, time \in {now, now + 1} :
             upload_document_commit_fails(user, "application/pdf", PlainFileSize, kind, time)
             => /\ upload_code_commit_fails("application/pdf", PlainFileSize) \in 500..599
                /\ documents' = documents
                /\ uploadResponse' = uploadResponse
                /\ tasks' = tasks
                /\ run' = run /\ started' = started
                /\ <<user, time>> \notin DOMAIN files'
       /\ run' # run => files' = files]_vars

\* An upload has failed and none has succeeded: an id was drawn, and there
\* is no document, no file, no task and no run.
C25_Witness ==
    /\ nextId.document > 1
    /\ uploadResponse = << >>
    /\ documents = << >> /\ files = << >> /\ tasks = << >> /\ run = << >>

\* C26: every step that creates or changes a document leaves it with
\* processed_at set exactly when its status is processed, and the status
\* endpoint answers accordingly (so it is in every reachable state); a step
\* that changes processed_at is the step that sets the status to processed.
C26_TimestampIffProcessed ==
    [][\A id \in {d \in DOMAIN documents' :
                      d \notin DOMAIN documents \/ documents'[d] # documents[d]} :
          /\ ~IsNull(documents'[id].processed_at)
                <=> documents'[id].processing_status = COMPLETED
          /\ LET answer == get_document_status(documents[id].user_id, id)' IN
             ~IsNull(answer.processed_at) <=> answer.processing_complete
          /\ ( /\ id \in DOMAIN documents
               /\ documents'[id].processed_at # documents[id].processed_at )
                => /\ documents[id].processing_status # COMPLETED
                   /\ documents'[id].processing_status = COMPLETED]_vars

\* A document is processed and the status endpoint shows its owner the
\* timestamp of the commit; no task is waiting.
C26_Witness ==
    \E id \in DOMAIN documents :
        /\ documents[id].processing_status = COMPLETED
        /\ get_document_status(documents[id].user_id, id).processed_at = Some(now)
        /\ tasks = << >>

\* --------------------------------------- runs whose database writes fail
\* process_document when the commit of line 77 raises: the except clause is
\* entered, and its rollback discards what lines 61-75 assigned and added.
process_document_save_commit_fails(id) ==
    /\ At(id, "save")
    /\ run' = [run EXCEPT ![id].pc = "handler"]
    /\ UNCHANGED <<documents, quizzes, questions, submissions, nextId, fkCascade, files,
                   now, tasks, started, uploadResponse>>

\* process_document when the handler's own query or commit (lines 84-87)
\* raises: the exception leaves the except clause, finally closes the
\* session, and process_document_background, which catches RuntimeError
\* only, lets it go to the task runner.  Nothing was written.
process_document_handler_commit_fails(id) ==
    /\ At(id, "handler")
    /\ run' = [run EXCEPT ![id] = DoneRun]
    /\ UNCHANGED <<documents, quizzes, questions, submissions, nextId, fkCascade, files,
                   now, tasks, started, uploadResponse>>

\* Uploads, deletions by the owner, and processing runs whose final commit
\* and whose failure handler may fail on the database.
NextRunFault ==
    \/ \E user \in Uploaders, content_type \in ContentTypes, kind \in PdfKinds,
          time \in Times :
           upload_document(user, content_type, PlainFileSize, kind, time)
    \/ \E i \in 1..Len(tasks) : process_document_background(i)
    \/ \E id \in DOMAIN run : process_document_start(id)
    \/ \E id \in DOMAIN run : process_document_extract(id)
    \/ \E id \in DOMAIN run, reply \in SummarizerReplies : process_document_summarize(id, reply)
    \/ \E id \in DOMAIN run, reply \in GeneratorReplies : process_document_generate(id, reply)
    \/ \E id \in DOMAIN run : process_document_save(id)
    \/ \E id \in DOMAIN run : process_document_save_commit_fails(id)
    \/ \E id \in DOMAIN run : process_document_handler(id)
    \/ \E id \in DOMAIN run : process_document_handler_commit_fails(id)
    \/ \E user \in Users, id \in DocumentIds :
           OwnedDocument(user, id) /\ delete_document(user, id)

SpecRunFault == Init /\ [][NextRunFault]_vars

\* C27: a document whose processing run has returned is, if it exists,
\* processed or failed, also when the final commit of the run or the write
\* of its failure handler failed: none is left processing.
C27_RunEndsProcessedOrFailed ==
    \A id \in DOMAIN run \cap DOMAIN documents :
        At(id, "done") => documents[id].processing_status \in {COMPLETED, FAILED}

\* the documents that were uploaded and have been deleted
DeletedDocuments(table) == DOMAIN uploadResponse \ DOMAIN table

\* C28: no step, of a processing run or of anything else, brings back a
\* document that has been deleted, and after every step each Quiz row
\* refers to a document that exists; so when a document was deleted while
\* its run was in flight, the document and every Quiz row of it are gone
\* once both have finished, and stay gone.
C28_DeleteDuringRun ==
    [][/\ DeletedDocuments(documents) \subseteq DeletedDocuments(documents')
       /\ \A q \in DOMAIN quizzes' : quizzes'[q].document_id \in DOMAIN documents'
       /\ \A id \in DOMAIN run' :
             (run'[id].pc = "done" /\ id \in DeletedDocuments(documents'))
             => {q \in DOMAIN quizzes' : quizzes'[q].document_id = id} = {}]_vars

\* A document was deleted while its run held the extracted text and waited
\* for the generator: the run stands before its write, and the row and the
\* file are gone.
C28_Witness ==
    \E id \in DOMAIN run :
        /\ run[id].pc = "save"
        /\ run[id].text_content # << >>
        /\ id \in DeletedDocuments(documents)
        /\ files = << >>

\* ------------------------------------------- quiz requests of every kind
GenerateDifficulties == {"easy", "medium", "hard", "expert"}

\* Quiz requests with every difficulty, count and reply, plain submissions,
\* and deletions of quizzes and of the document, from the state of InitQuiz.
NextGenerate ==
    \/ \E user \in Users, id \in DocumentIds, difficulty \in GenerateDifficulties,
          questionCount \in QuestionCounts, reply \in QuizReplies :
           generate_quiz(user, id, difficulty, questionCount, reply)
    \/ \E user \in Users, quiz_id \in QuizIds, answers \in PlainAnswerLists :
           submit_quiz(user, quiz_id, answers)
    \/ \E user \in Users, id \in DocumentIds : delete_document(user, id)
    \/ \E user \in Users, quiz_id \in QuizIds : delete_quiz(user, quiz_id)

SpecGenerate == InitQuiz /\ [][NextGenerate]_vars

\* the requests that get no question: the call fails, the reply cannot be
\* parsed, or no valid record is left within the count asked for
EmptyRequests ==
    {o \in QuestionCounts \X QuizReplies :
        generate_questions_ai(o[2], question_count(o[1])) = << >>}

\* C29: after every step each Quiz stored by POST /quizzes/generate has at
\* least one Question, and each Question of a new Quiz is a complete record
\* of the reply; a request whose generation fails, returns what cannot be
\* parsed or yields no valid record within the count asked for is answered
\* with an error code, and no step that changes the Quiz or Question rows
\* is such a request (the codes are looked at in every state that has such
\* a step).
C29_NoEmptyQuiz ==
    [][/\ \A q \in EndpointQuizzes(quizzes') :
             \E x \in DOMAIN questions' : questions'[x].quiz_id = q
       /\ \A q \in DOMAIN quizzes' \ DOMAIN quizzes, x \in DOMAIN questions' :
             questions'[x].quiz_id = q
             => /\ x \notin DOMAIN questions
                /\ questions'[x].question_text # ""
                /\ questions'[x].options # ""
                /\ questions'[x].correct_answer # ""
       /\ (quizzes' # quizzes \/ questions' # questions)
             => \A user \in Users, id \in DOMAIN documents,
                   difficulty \in GenerateDifficulties, o \in EmptyRequests :
                   /\ generate_code(user, id, difficulty, o[1], o[2]) \in 400..599
                   /\ ~generate_quiz(user, id, difficulty, o[1], o[2])]_vars

\* A Quiz was stored from a reply of one complete and one incomplete record:
\* it holds one Question, the only one ever stored.
C29_Witness ==
    \E q \in EndpointQuizzes(quizzes) :
        /\ Cardinality(QuestionsOf({q})) = 1
        /\ nextId.question = 2
        /\ quizzes[q].estimated_duration = Some(100)

\* ------------------------------------------ deletions whose commit fails
\* the status code of a deletion whose db.commit() of line 391 raises
delete_code_commit_fails(user, id) ==
    IF delete_code(user, id) = 200 THEN 500 ELSE delete_code(user, id)

\* delete_document when db.commit() raises: the quizzes were deleted in the
\* transaction (line 383), the file was removed from the disk (lines
\* 386-387) and the row was marked for deletion (line 390); the handler of
\* lines 396-399 rolls the transaction back and answers 500.  The rollback
\* restores the rows, not the file.
delete_document_commit_fails(user, id) ==
    IF delete_code(user, id) # 200
    THEN UNCHANGED vars
    ELSE /\ files' = Drop(files, {documents[id].file_path})
         /\ UNCHANGED <<documents, quizzes, questions, submissions, nextId, fkCascade,
                        now, tasks, run, started, uploadResponse>>

\* The whole application, with deletions whose commit may fail.
NextDeleteFault ==
    \/ \E user \in Uploaders, content_type \in ContentTypes, kind \in PdfKinds,
          time \in Times :
           upload_document(user, content_type, PlainFileSize, kind, time)
    \/ \E i \in 1..Len(tasks) : process_document_background(i)
    \/ \E id \in DOMAIN run : process_document_start(id)
    \/ \E id \in DOMAIN run : process_document_extract(id)
    \/ \E id \in DOMAIN run, reply \in SummarizerReplies : process_document_summarize(id, reply)
    \/ \E id \in DOMAIN run, reply \in GeneratorReplies : process_document_generate(id, reply)
    \/ \E id \in DOMAIN run : process_document_save(id)
    \/ \E id \in DOMAIN run : process_document_handler(id)
    \/ \E user \in Users, id \in DocumentIds :
           OwnedDocument(user, id) /\ delete_document(user, id)
    \/ \E user \in Users, id \in DocumentIds :
           OwnedDocument(user, id) /\ delete_document_commit_fails(user, id)
    \/ \E user \in Users, id \in DocumentIds, reply \in {ApiError, GoodQuizReply} :
           /\ OwnedDocument(user, id)
           /\ generate_quiz(user, id, DefaultOptions.difficulty,
                            DefaultOptions.questionCount, reply)
    \/ \E user \in Users, quiz_id \in QuizIds, answers \in PlainAnswerLists :
           submit_quiz(user, quiz_id, answers)

SpecDeleteFault == Init /\ [][NextDeleteFault]_vars

\* C30: a DELETE /documents/{id} that is answered with an error, the one
\* whose commit fails included, leaves the documents, the quizzes and the
\* upload directory exactly as they were; and no step removes the file of a
\* document whose row is still there after it.
C30_DeleteAllOrNothing ==
    [][/\ \A id \in DOMAIN documents :
             LET user == documents[id].user_id IN
             /\ (delete_code(user, id) # 200 /\ delete_document(user, id))
                   => documents' = documents /\ quizzes' = quizzes /\ files' = files
             /\ ( /\ delete_code_commit_fails(user, id) # 200
                  /\ delete_document_commit_fails(user, id) )
                   => documents' = documents /\ quizzes' = quizzes /\ files' = files
       /\ \A id \in DOMAIN documents \cap DOMAIN documents' :
             documents[id].file_path \in DOMAIN files
             => documents'[id].file_path \in DOMAIN files']_vars

=============================================================================
